---- MODULE Spec2Model ----
(***************************************************************************)
(* nxfuse: a read-only FUSE projection of an NX archive.                   *)
(*                                                                         *)
(* The state is the NxFilesystem object (entries, inode_counter,           *)
(* create_time, inode_attrs) over one of a few small archives; the actions *)
(* are the four Filesystem handlers lookup, getattr, read and readdir.     *)
(* Text is a sequence of one-character strings, file content a sequence of *)
(* byte values.  A panic of a handler ends the process: status becomes     *)
(* "aborted" and nothing is enabled any more.                              *)
(***************************************************************************)
EXTENDS Integers, Sequences, FiniteSets, TLC

VARIABLES nx_file, entries, inode_counter, create_time, inode_attrs,
          status, req, reply, inflight

vars == <<nx_file, entries, inode_counter, create_time, inode_attrs,
          status, req, reply, inflight>>

-----------------------------------------------------------------------------
(* Bounds of the inputs drawn by the handlers.                             *)

MaxOffset == 3

MaxSize == 2

-----------------------------------------------------------------------------
(* Option<T>: None is the empty tuple, Some(x) the one-element tuple.      *)

None == <<>>

Some(x) == <<x>>

IsSome(o) == o /= <<>>

Unwrap(o) == o[1]

Min(a, b) == IF a <= b THEN a ELSE b

SetMin(S) == CHOOSE x \in S : \A y \in S : x <= y

\* F applied to the value of v, which is computed once
Let(v, F(_)) == CHOOSE y \in {F(x) : x \in {v}} : TRUE

-----------------------------------------------------------------------------
(* Text and bytes.                                                         *)

Alphabet ==
    <<" ", "(", ")", ",", "-", ".", "0", "1", "2", "3", "4", "5", "6", "7",
      "8", "9", "_", "a", "b", "c", "d", "e", "f", "g", "h", "i", "j", "k",
      "l", "m", "n", "o", "p", "q", "r", "s", "t", "u", "v", "w", "x", "y",
      "z">>

AsciiCodes ==
    <<32, 40, 41, 44, 45, 46, 48, 49, 50, 51, 52, 53, 54, 55,
      56, 57, 95, 97, 98, 99, 100, 101, 102, 103, 104, 105, 106, 107,
      108, 109, 110, 111, 112, 113, 114, 115, 116, 117, 118, 119, 120, 121,
      122>>

\* str::as_bytes on ASCII text: one byte per character.
as_bytes(text) ==
    [i \in 1..Len(text) |->
        AsciiCodes[CHOOSE k \in 1..Len(Alphabet) : Alphabet[k] = text[i]]]

Digit(d) == <<Alphabet[7 + d]>>

RECURSIVE NatToString(_)
NatToString(n) ==
    IF n < 10 THEN Digit(n) ELSE NatToString(n \div 10) \o Digit(n % 10)

\* i64::to_string: decimal digits, a leading '-' for negative values.
int_to_string(n) ==
    IF n < 0 THEN <<"-">> \o NatToString(-n) ELSE NatToString(n)

\* f64::to_string for a value given in tenths (t / 10): the shortest decimal
\* that reads back as the value, without ".0" when the value is integral.
float_to_string(t) ==
    LET a == IF t < 0 THEN -t ELSE t
        sign == IF t < 0 THEN <<"-">> ELSE <<>>
    IN IF a % 10 = 0
       THEN sign \o NatToString(a \div 10)
       ELSE sign \o NatToString(a \div 10) \o <<".">> \o Digit(a % 10)

\* format!("({}, {})", x, y)
vector_to_string(x, y) ==
    <<"(">> \o int_to_string(x) \o <<",", " ">> \o int_to_string(y) \o <<")">>

\* byteorder: write_u16 / write_u32 / write_i32 as little endian
LE16(n) == <<n % 256, (n \div 256) % 256>>

LE32(n) ==
    <<n % 256, (n \div 256) % 256, (n \div 65536) % 256,
      (n \div 16777216) % 256>>

\* two's complement of a 32-bit signed value
LE32i(n) ==
    IF n >= 0 THEN LE32(n)
    ELSE LET m == (-n) - 1
         IN <<255 - (m % 256), 255 - ((m \div 256) % 256),
              255 - ((m \div 65536) % 256), 255 - ((m \div 16777216) % 256)>>

Zeros(n) == [i \in 1..n |-> 0]

-----------------------------------------------------------------------------
(* The archive reader (crate nx): a node is its index in the file, the     *)
(* root is node 1.  Children are kept in the file's order, sorted by name, *)
(* and sibling names are distinct.                                         *)

NoBitmap == [width |-> 0, height |-> 0, data |-> <<>>]

MkNode(name, dtype, children) ==
    [name |-> name, dtype |-> dtype, children |-> children,
     integer |-> 0, float |-> 0, string |-> <<>>, vector |-> <<0, 0>>,
     bitmap |-> NoBitmap, audio |-> <<>>]

EmptyNode(name, ch) == MkNode(name, "Empty", ch)

IntegerNode(name, v, ch) == [MkNode(name, "Integer", ch) EXCEPT !.integer = v]

FloatNode(name, tenths, ch) == [MkNode(name, "Float", ch) EXCEPT !.float = tenths]

StringNode(name, v, ch) == [MkNode(name, "String", ch) EXCEPT !.string = v]

VectorNode(name, x, y, ch) == [MkNode(name, "Vector", ch) EXCEPT !.vector = <<x, y>>]

BitmapNode(name, w, h, px, ch) ==
    [MkNode(name, "Bitmap", ch) EXCEPT
        !.bitmap = [width |-> w, height |-> h, data |-> px]]

AudioNode(name, v, ch) == [MkNode(name, "Audio", ch) EXCEPT !.audio = v]

n_stats == <<"s", "t", "a", "t", "s">>

n_stats_data == <<"s", "t", "a", "t", "s", "_", "d", "a", "t", "a">>

\* root{ stats = "ab" { hp = 100 }, stats_data { v = (1, -2) } }
ArchiveStats ==
    << EmptyNode(<<>>, <<2, 4>>),
       StringNode(n_stats, <<"a", "b">>, <<3>>),
       IntegerNode(<<"h", "p">>, 100, <<>>),
       EmptyNode(n_stats_data, <<5>>),
       VectorNode(<<"v">>, 1, -2, <<>>) >>

\* a root that carries a value itself: root = "rt" { a = audio { f = 1.5 }, b = bitmap }
ArchiveValuedRoot ==
    << StringNode(<<>>, <<"r", "t">>, <<2, 4>>),
       AudioNode(<<"a">>, <<1, 2, 3>>, <<3>>),
       FloatNode(<<"f">>, 15, <<>>),
       BitmapNode(<<"b">>, 1, 1, <<255, 0, 0, 255>>, <<>>) >>

\* an archive that holds nothing but its root
ArchiveBare == << EmptyNode(<<>>, <<>>) >>

Archives == <<ArchiveStats, ArchiveValuedRoot, ArchiveBare>>

File == Archives[nx_file]

Nodes == 1..Len(File)

\* nx::File::root
root == 1

\* nx::Node::iter: the children in the file's order
iter(node) == File[node].children

\* nx::Node::name
name_of(node) == File[node].name

\* nx::Node::dtype
dtype(node) == File[node].dtype

\* nx::Node::get: the child of that exact name, if any
get(node, name) ==
    LET hits == {i \in 1..Len(iter(node)) : name_of(iter(node)[i]) = name}
    IN IF hits = {} THEN None ELSE Some(iter(node)[SetMin(hits)])

-----------------------------------------------------------------------------
(* Content Materializer.                                                   *)

bmp_header_size == 108

bmp_offset == 2 + (3 * 4) + bmp_header_size

bmp_data(bitmap) ==
    LET len == Len(bitmap.data)
        size_bytes == bmp_offset + len
    IN <<66, 77>> \o LE32(size_bytes) \o LE32(0) \o LE32(bmp_offset)
       \o LE32(bmp_header_size) \o LE32i(bitmap.width) \o LE32i(-bitmap.height)
       \o LE16(1) \o LE16(32) \o LE32(3) \o LE32(len)
       \o LE32i(2835) \o LE32i(2835) \o LE32i(0) \o LE32i(0)
       \o <<0, 0, 255, 0>> \o <<0, 255, 0, 0>> \o <<255, 0, 0, 0>>
       \o <<0, 0, 0, 255>>
       \o <<32, 110, 105, 87>> \o Zeros(36 + (3 * 4)) \o bitmap.data

\* with_node_data: the bytes handed to the closure
with_node_data(node) ==
    CASE dtype(node) = "Empty"   -> <<>>
      [] dtype(node) = "Integer" -> as_bytes(int_to_string(File[node].integer))
      [] dtype(node) = "Float"   -> as_bytes(float_to_string(File[node].float))
      [] dtype(node) = "String"  -> as_bytes(File[node].string)
      [] dtype(node) = "Vector"  ->
            as_bytes(vector_to_string(File[node].vector[1], File[node].vector[2]))
      [] dtype(node) = "Bitmap"  -> bmp_data(File[node].bitmap)
      [] dtype(node) = "Audio"   -> File[node].audio

node_has_children(node) == Len(iter(node)) > 0

node_file_type(node) ==
    IF node_has_children(node) THEN "Directory" ELSE "RegularFile"

-----------------------------------------------------------------------------
(* Inode registry and attribute cache.  The operators thread the mutable   *)
(* part of NxFilesystem as a record st = [entries, inode_counter,          *)
(* inode_attrs].                                                           *)

FUSE_ROOT_ID == 1

ENOENT == 2

TTL == 1

\* Entries::nxnode comparing the main inode only
Entries_nxnode_main_only(vec, inode) ==
    LET hits == {i \in 1..Len(vec) : vec[i].inodes.main = inode}
    IN IF hits = {} THEN None ELSE Some(vec[SetMin(hits)].nxnode)

\* Entries::nxnode: the node of the first entry holding that inode
Entries_nxnode(vec, inode) ==
    LET hits == {i \in 1..Len(vec) :
                    \/ vec[i].inodes.main = inode
                    \/ /\ IsSome(vec[i].inodes.opt_data)
                       /\ inode = Unwrap(vec[i].inodes.opt_data)}
    IN IF hits = {} THEN None ELSE Some(vec[SetMin(hits)].nxnode)

\* Entries::inodes finding no entry
Entries_inodes_never_found(vec, node) == None

\* Entries::inodes: the inodes of the first entry of that node
Entries_inodes(vec, node) ==
    LET hits == {i \in 1..Len(vec) : vec[i].nxnode = node}
    IN IF hits = {} THEN None ELSE Some(vec[SetMin(hits)].inodes)

FileAttr(ino, size, kind, t) ==
    [ino |-> ino, size |-> size, blocks |-> 1,
     atime |-> t, mtime |-> t, ctime |-> t, crtime |-> t,
     kind |-> kind, perm |-> 420, nlink |-> 1, uid |-> 501, gid |-> 20,
     rdev |-> 0, flags |-> 0]

\* new_inode without the increment of the counter
new_inode_no_increment(st) == [st |-> st, inode |-> st.inode_counter]

\* NxFilesystem::new_inode
new_inode(st) ==
    [st |-> [st EXCEPT !.inode_counter = @ + 1], inode |-> st.inode_counter]

\* the shadow decision of node_inodes
wants_opt_data(node) == node_has_children(node) /\ dtype(node) /= "Empty"

\* node_inodes without the search for an existing entry
node_inodes_always_new(st, node) ==
    LET m  == new_inode(st)
        d  == IF wants_opt_data(node) THEN new_inode(m.st)
              ELSE [st |-> m.st, inode |-> 0]
        inodes == [main |-> m.inode,
                   opt_data |-> IF wants_opt_data(node)
                                THEN Some(d.inode) ELSE None]
    IN [st |-> [d.st EXCEPT !.entries =
                   Append(@, [nxnode |-> node, inodes |-> inodes])],
        inodes |-> inodes]

\* node_inodes taking the data inode from the counter before the main inode
node_inodes_data_first(st, node) ==
    LET found == Entries_inodes(st.entries, node)
    IN IF IsSome(found)
       THEN [st |-> st, inodes |-> Unwrap(found)]
       ELSE LET d  == IF wants_opt_data(node) THEN new_inode(st)
                      ELSE [st |-> st, inode |-> 0]
                m  == new_inode(d.st)
                inodes == [main |-> m.inode,
                           opt_data |-> IF wants_opt_data(node)
                                        THEN Some(d.inode) ELSE None]
            IN [st |-> [m.st EXCEPT !.entries =
                           Append(@, [nxnode |-> node, inodes |-> inodes])],
                inodes |-> inodes]

\* NxFilesystem::node_inodes
node_inodes(st, node) ==
    LET found == Entries_inodes(st.entries, node)
    IN IF IsSome(found)
       THEN [st |-> st, inodes |-> Unwrap(found)]
       ELSE LET m  == new_inode(st)
                d  == IF wants_opt_data(node) THEN new_inode(m.st)
                      ELSE [st |-> m.st, inode |-> 0]
                inodes == [main |-> m.inode,
                           opt_data |-> IF wants_opt_data(node)
                                        THEN Some(d.inode) ELSE None]
            IN [st |-> [d.st EXCEPT !.entries =
                           Append(@, [nxnode |-> node, inodes |-> inodes])],
                inodes |-> inodes]

\* HashMap::insert(k, v) in place of the Occupied/Vacant match
entry_overwrite(attrs, k, v) ==
    [i \in DOMAIN attrs \cup {k} |-> IF i = k THEN v ELSE attrs[i]]

\* HashMap::entry(k): Occupied keeps the record, Vacant inserts v
entry_or_insert(attrs, k, v) ==
    IF k \in DOMAIN attrs THEN attrs ELSE (k :> v) @@ attrs

\* the two Vacant/Occupied matches of node_file_attrs: the cache afterwards
insert_attrs(attrs, inodes, node) ==
    LET size == Len(with_node_data(node))
        a1   == entry_or_insert(attrs, inodes.main,
                    FileAttr(inodes.main, size, node_file_type(node),
                             create_time))
    IN IF IsSome(inodes.opt_data)
       THEN entry_or_insert(a1, Unwrap(inodes.opt_data),
                FileAttr(Unwrap(inodes.opt_data), size, "RegularFile",
                         create_time))
       ELSE a1

\* NxFilesystem::node_file_attrs
node_file_attrs(st, node) ==
    Let(node_inodes(st, node), LAMBDA r :
        Let(insert_attrs(r.st.inode_attrs, r.inodes, node), LAMBDA a :
            [st |-> [r.st EXCEPT !.inode_attrs = a],
             main |-> a[r.inodes.main],
             opt_data |-> IF IsSome(r.inodes.opt_data)
                          THEN Some(a[Unwrap(r.inodes.opt_data)])
                          ELSE None]))

-----------------------------------------------------------------------------
(* Requests and replies.                                                   *)

NoAttr == FileAttr(0, 0, "RegularFile", 0)

NoReply ==
    [kind |-> "none", errno |-> 0, ttl |-> 0, attr |-> NoAttr, data |-> <<>>,
     dir |-> <<>>]

\* ReplyEntry::entry(&TTL, attr, 0)
ReplyEntry(attr) == [NoReply EXCEPT !.kind = "entry", !.ttl = TTL, !.attr = attr]

\* ReplyAttr::attr(&TTL, attr)
ReplyAttr(attr) == [NoReply EXCEPT !.kind = "attr", !.ttl = TTL, !.attr = attr]

\* Reply*::error(errno)
ReplyError(errno) == [NoReply EXCEPT !.kind = "error", !.errno = errno]

\* ReplyData::data(bytes)
ReplyData(bytes) == [NoReply EXCEPT !.kind = "data", !.data = bytes]

\* ReplyDirectory::ok() after the add() calls
ReplyDirectory(listing) == [NoReply EXCEPT !.kind = "dir", !.dir = listing]

\* a panic of the handler: no reply is sent, the process ends
Panic == [NoReply EXCEPT !.kind = "panic"]

NoReq == [op |-> "none", ino |-> 0, name |-> <<>>, offset |-> 0, size |-> 0]

State == [entries |-> entries, inode_counter |-> inode_counter,
          inode_attrs |-> inode_attrs]

\* the handler leaves new_st behind and answers r
Finish(new_st, request, r) ==
    /\ entries' = new_st.entries
    /\ inode_counter' = new_st.inode_counter
    /\ inode_attrs' = new_st.inode_attrs
    /\ req' = request
    /\ reply' = r
    /\ status' = IF r.kind = "panic" THEN "aborted" ELSE "running"
    /\ UNCHANGED <<nx_file, create_time>>

-----------------------------------------------------------------------------
(* lookup                                                                  *)

data_suffix == <<"_", "d", "a", "t", "a">>

\* str::rfind: the byte index of the last occurrence of pat in text
rfind(text, pat) ==
    LET hits == {p \in 0..(Len(text) - Len(pat)) :
                    SubSeq(text, p + 1, p + Len(pat)) = pat}
    IN IF hits = {} THEN None
       ELSE Some(CHOOSE p \in hits : \A q \in hits : q <= p)

\* a byte of a file name that is not part of any UTF-8 text
InvalidByte == "0xFF"

\* Path::components yields Component::RootDir for a leading "/", CurDir for a
\* leading ".", ParentDir for ".." and Component::Normal for everything else
IsNormal(comp) == comp \notin {<<"/">>, <<".">>, <<".", ".">>}

\* OsStr::to_str: the text of the component, none when it is not valid UTF-8
to_str(comp) ==
    IF \E i \in 1..Len(comp) : comp[i] = InvalidByte THEN None ELSE Some(comp)

\* the loop of lookup trying the "_data" reading of a component before the
\* exact child name
RECURSIVE lookup_walk_suffix_first(_, _, _)
lookup_walk_suffix_first(node, comps, data_request) ==
    IF comps = <<>>
    THEN [outcome |-> "found", node |-> node, data_request |-> data_request]
    ELSE LET name == Head(comps)
             pos  == rfind(name, data_suffix)
             stripped == SubSeq(name, 1, Unwrap(pos))
         IN IF ~IsNormal(name) \/ ~IsSome(to_str(name))
            THEN [outcome |-> "panic", node |-> node,
                  data_request |-> data_request]
            ELSE IF IsSome(pos) /\ IsSome(get(node, stripped))
            THEN lookup_walk_suffix_first(Unwrap(get(node, stripped)),
                                          Tail(comps), TRUE)
            ELSE IF IsSome(get(node, name))
            THEN lookup_walk_suffix_first(Unwrap(get(node, name)),
                                          Tail(comps), data_request)
            ELSE [outcome |-> "enoent", node |-> node,
                  data_request |-> data_request]

\* the loop of lookup over the components of the name
RECURSIVE lookup_walk(_, _, _)
lookup_walk(node, comps, data_request) ==
    IF comps = <<>>
    THEN [outcome |-> "found", node |-> node, data_request |-> data_request]
    ELSE LET name == Head(comps)
             miss == [outcome |-> "enoent", node |-> node,
                      data_request |-> data_request]
         IN IF ~IsNormal(name) \/ ~IsSome(to_str(name))
            THEN [outcome |-> "panic", node |-> node,
                  data_request |-> data_request]
            ELSE IF IsSome(get(node, name))
            THEN lookup_walk(Unwrap(get(node, name)), Tail(comps), data_request)
            ELSE LET pos == rfind(name, data_suffix)
                 IN IF ~IsSome(pos) THEN miss
                    ELSE LET stripped == SubSeq(name, 1, Unwrap(pos))
                         IN IF IsSome(get(node, stripped))
                            THEN lookup_walk(Unwrap(get(node, stripped)),
                                             Tail(comps), TRUE)
                            ELSE miss

\* Filesystem::lookup: the state it leaves and its reply
lookup(st, parent, name) ==
    LET p == Entries_nxnode(st.entries, parent)
    IN IF ~IsSome(p) THEN [st |-> st, reply |-> Panic]
       ELSE LET w == lookup_walk(Unwrap(p), name, FALSE)
            IN CASE w.outcome = "panic"  -> [st |-> st, reply |-> Panic]
                 [] w.outcome = "enoent" -> [st |-> st, reply |-> ReplyError(ENOENT)]
                 [] w.outcome = "found"  ->
                      LET attrs == node_file_attrs(st, w.node)
                      IN [st |-> attrs.st,
                          reply |->
                            IF w.data_request
                            THEN IF IsSome(attrs.opt_data)
                                 THEN ReplyEntry(Unwrap(attrs.opt_data))
                                 ELSE Panic
                            ELSE ReplyEntry(attrs.main)]

-----------------------------------------------------------------------------
(* getattr                                                                 *)

getattr(st, ino) ==
    IF ino \in DOMAIN st.inode_attrs
    THEN [st |-> st, reply |-> ReplyAttr(st.inode_attrs[ino])]
    ELSE [st |-> st, reply |-> Panic]

-----------------------------------------------------------------------------
(* read                                                                    *)

\* the closure of read without the second clamp (from = min(from, to))
read_slice_unclamped(data, offset, size) ==
    LET from == offset
        to   == Min(from + size, Len(data))
    IN IF from <= to /\ to <= Len(data)
       THEN ReplyData(SubSeq(data, from + 1, to))
       ELSE Panic

\* the closure of read: the window of data that is sent; slicing panics
\* unless from <= to <= len
read_slice(data, offset, size) ==
    LET from0 == offset
        to    == Min(from0 + size, Len(data))
        from  == Min(from0, to)
    IN IF from <= to /\ to <= Len(data)
       THEN ReplyData(SubSeq(data, from + 1, to))
       ELSE Panic

read(st, ino, offset, size) ==
    LET node == Entries_nxnode(st.entries, ino)
    IN IF ~IsSome(node) THEN [st |-> st, reply |-> Panic]
       ELSE [st |-> st,
             reply |-> read_slice(with_node_data(Unwrap(node)), offset, size)]

-----------------------------------------------------------------------------
(* readdir                                                                 *)

DirEntry(ino, offset, kind, name) ==
    [ino |-> ino, offset |-> offset, kind |-> kind, name |-> name]

\* readdir adding the main inode a second time under the "_data" name
readdir_entries_main_twice(i, child, inodes) ==
    <<DirEntry(inodes.main, i + 1, node_file_type(child), name_of(child))>>
    \o IF IsSome(inodes.opt_data)
       THEN <<DirEntry(inodes.main, i + 2, "RegularFile",
                       name_of(child) \o data_suffix)>>
       ELSE <<>>

\* the entries ReplyDirectory::add receives for the child at index i (from 0);
\* the result of add (buffer full) is ignored by readdir
readdir_entries(i, child, inodes) ==
    <<DirEntry(inodes.main, i + 1, node_file_type(child), name_of(child))>>
    \o IF IsSome(inodes.opt_data)
       THEN <<DirEntry(Unwrap(inodes.opt_data), i + 2, "RegularFile",
                       name_of(child) \o data_suffix)>>
       ELSE <<>>

\* one round of the loop of readdir without the call of node_file_attrs
readdir_step_no_attrs(st, i, child) ==
    LET r == node_inodes(st, child)
    IN [st |-> r.st, added |-> readdir_entries(i, child, r.inodes)]

\* one round of the loop of readdir: the child at index i (from 0)
readdir_step(st, i, child) ==
    LET r     == node_inodes(st, child)
        attrs == node_file_attrs(r.st, child)
    IN [st |-> attrs.st, added |-> readdir_entries(i, child, r.inodes)]

\* the loop of readdir over node.iter().enumerate(), from index i on
RECURSIVE readdir_loop(_, _, _, _)
readdir_loop(st, children, i, listing) ==
    IF i >= Len(children) THEN [st |-> st, listing |-> listing]
    ELSE Let(readdir_step(st, i, children[i + 1]),
             LAMBDA s : readdir_loop(s.st, children, i + 1, listing \o s.added))

readdir(st, ino, offset) ==
    IF offset = 0
    THEN LET node_to_read == Entries_nxnode(st.entries, ino)
         IN IF ~IsSome(node_to_read) THEN [st |-> st, reply |-> Panic]
            ELSE LET r == readdir_loop(st, iter(Unwrap(node_to_read)), 0, <<>>)
                 IN [st |-> r.st, reply |-> ReplyDirectory(r.listing)]
    ELSE [st |-> st, reply |-> ReplyDirectory(<<>>)]

-----------------------------------------------------------------------------
(* Inputs of the protocol host.                                            *)

\* every inode number handed out so far, and 0 and the next one, which are not
InodeInputs == 0..inode_counter

NodeNames == {name_of(n) : n \in Nodes \ {root}} \cup {<<"z">>}

NameSuffixes == {<<>>, data_suffix, data_suffix \o <<"x">>}

\* the empty path, ".", "..", "/", names that are not UTF-8, paths with a
\* leading "/", and every node name as it is, with "_data" appended,
\* and with "_datax" appended
LookupPaths ==
    {<<>>, << <<".">> >>, << <<".", ".">> >>, << <<"/">> >>,
     << <<InvalidByte>> >>, << <<InvalidByte>> \o data_suffix >>}
    \cup {<<n \o s>> : n \in NodeNames, s \in NameSuffixes}
    \cup {<< <<"/">>, n >> : n \in NodeNames}
    \cup {<<n \o <<InvalidByte>> >> : n \in NodeNames}

BitmapLengths == {Len(with_node_data(n)) : n \in {m \in Nodes : dtype(m) = "Bitmap"}}

\* small offsets, and the offsets around the end of a bitmap's content; usize
\* is 64 bits wide and the host's offsets are below 2^63, so that
\* offset + size does not wrap
ReadOffsets ==
    (0..MaxOffset) \cup {l + d : l \in BitmapLengths, d \in {-1, 0, 1}}

ReadSizes == (0..MaxSize) \cup {1000000}

ReaddirOffsets == {0, 1}

-----------------------------------------------------------------------------
(* The state machine.                                                      *)

CreateTimes == {1477872000}

\* NxFilesystem::new_with_nx_file
Init ==
    /\ nx_file \in DOMAIN Archives
    /\ create_time \in CreateTimes
    /\ entries = << [nxnode |-> root,
                     inodes |-> [main |-> FUSE_ROOT_ID, opt_data |-> None]] >>
    /\ inode_counter = FUSE_ROOT_ID + 1
    /\ inode_attrs = (FUSE_ROOT_ID :>
                        FileAttr(FUSE_ROOT_ID, 0, "Directory", create_time))
    /\ status = "running"
    /\ req = NoReq
    /\ reply = NoReply
    /\ inflight = <<>>

Lookup ==
    /\ status = "running"
    /\ \E parent \in InodeInputs, name \in LookupPaths :
          LET r == lookup(State, parent, name)
          IN Finish(r.st, [NoReq EXCEPT !.op = "lookup", !.ino = parent,
                                        !.name = name], r.reply)
    /\ UNCHANGED inflight

GetAttr ==
    /\ status = "running"
    /\ \E ino \in InodeInputs :
          LET r == getattr(State, ino)
          IN Finish(r.st, [NoReq EXCEPT !.op = "getattr", !.ino = ino], r.reply)
    /\ UNCHANGED inflight

Read ==
    /\ status = "running"
    /\ \E ino \in InodeInputs, offset \in ReadOffsets, size \in ReadSizes :
          LET r == read(State, ino, offset, size)
          IN Finish(r.st, [NoReq EXCEPT !.op = "read", !.ino = ino,
                                        !.offset = offset, !.size = size],
                    r.reply)
    /\ UNCHANGED inflight

ReadDir ==
    /\ status = "running"
    /\ \E ino \in InodeInputs, offset \in ReaddirOffsets :
          LET r == readdir(State, ino, offset)
          IN Finish(r.st, [NoReq EXCEPT !.op = "readdir", !.ino = ino,
                                        !.offset = offset], r.reply)
    /\ UNCHANGED inflight

Next == Lookup \/ GetAttr \/ Read \/ ReadDir

Spec == Init /\ [][Next]_vars

-----------------------------------------------------------------------------
(* Concurrent dispatch: the host has two calls outstanding at once. The     *)
(* handlers take &mut self, so the session serves the outstanding calls one *)
(* whole handler at a time, in either order.                                *)

\* the children of a registered directory that have no entry yet
UnseenChildren(parent) ==
    LET node == Entries_nxnode(entries, parent)
    IN IF IsSome(node)
       THEN {iter(Unwrap(node))[i] : i \in 1..Len(iter(Unwrap(node)))}
            \ {entries[i].nxnode : i \in 1..Len(entries)}
       ELSE {}

Outstanding(call) ==
    [call |-> call, served |-> FALSE, reply |-> NoReply, base |-> Len(entries)]

\* the host issues a lookup of an unseen child together with a second lookup
\* of it or a readdir of its directory, before either is answered
Issue ==
    /\ status = "running"
    /\ inflight = <<>>
    /\ \E parent \in InodeInputs :
       \E c \in UnseenChildren(parent), second \in {"lookup", "readdir"} :
          LET first == [NoReq EXCEPT !.op = "lookup", !.ino = parent,
                                     !.name = <<name_of(c)>>]
          IN inflight' =
                << Outstanding(first),
                   Outstanding(IF second = "lookup" THEN first
                               ELSE [NoReq EXCEPT !.op = "readdir",
                                                  !.ino = parent]) >>
    /\ UNCHANGED <<nx_file, entries, inode_counter, create_time, inode_attrs,
                   status, req, reply>>

\* the session runs the handler of one outstanding call to its end
Dispatch ==
    /\ status = "running"
    /\ \E k \in 1..Len(inflight) :
          /\ ~inflight[k].served
          /\ LET c == inflight[k].call
                 r == IF c.op = "lookup" THEN lookup(State, c.ino, c.name)
                      ELSE readdir(State, c.ino, c.offset)
             IN /\ Finish(r.st, c, r.reply)
                /\ inflight' = [inflight EXCEPT ![k].served = TRUE,
                                                ![k].reply = r.reply]

\* both replies have reached the host
Complete ==
    /\ status = "running"
    /\ inflight /= <<>>
    /\ \A k \in 1..Len(inflight) : inflight[k].served
    /\ inflight' = <<>>
    /\ UNCHANGED <<nx_file, entries, inode_counter, create_time, inode_attrs,
                   status, req, reply>>

NextConcurrent == Issue \/ Dispatch \/ Complete

SpecConcurrent == Init /\ [][NextConcurrent]_vars

-----------------------------------------------------------------------------
(* Vocabulary of the properties.                                           *)

Children(node) == {iter(node)[i] : i \in 1..Len(iter(node))}

\* the archive-level condition for a shadow: a value and at least one child
ShadowLaw(node) == Len(File[node].children) > 0 /\ File[node].dtype /= "Empty"

EndsWithData(name) ==
    /\ Len(name) >= Len(data_suffix)
    /\ SubSeq(name, Len(name) - Len(data_suffix) + 1, Len(name)) = data_suffix

StripData(name) == SubSeq(name, 1, Len(name) - Len(data_suffix))

\* the node the inode of the last request resolves to
ReqNode == Entries_nxnode(entries, req.ino)

\* the last request was a lookup of one ordinary path component under a
\* registered parent
LookupOfName ==
    /\ req.op = "lookup"
    /\ Len(req.name) = 1
    /\ IsNormal(req.name[1])
    /\ IsSome(to_str(req.name[1]))
    /\ IsSome(ReqNode)

ExactChild(name) == \E c \in Children(Unwrap(ReqNode)) : name_of(c) = name

\* every binding of an inode number: <<number, node, presentation>>
InodeBindings ==
    {<<entries[i].inodes.main, entries[i].nxnode, "primary">> :
        i \in 1..Len(entries)}
    \cup {<<Unwrap(entries[i].inodes.opt_data), entries[i].nxnode, "shadow">> :
            i \in {j \in 1..Len(entries) : IsSome(entries[j].inodes.opt_data)}}

-----------------------------------------------------------------------------
(* Properties.                                                             *)

\* C1 - Inode bijection: no inode number is bound to two distinct
\* (archive node, primary|shadow) pairs; this covers the root entry, every
\* primary and every shadow inode.
C1_InodeBijection ==
    \A x \in InodeBindings, y \in InodeBindings : x[1] = y[1] => x = y

\* a node with a shadow and a further node are registered next to the root
C1_Witness ==
    /\ Len(entries) >= 3
    /\ \E i \in 1..Len(entries) : IsSome(entries[i].inodes.opt_data)

\* C2 - a lookup whose name matches no child exactly, but whose name with the
\* suffix "_data" stripped matches a child without shadow (no children, or
\* kind Empty), replies not-found: no abort, no attribute record.
C2_MissingShadowIsNotFound ==
    ( /\ LookupOfName
      /\ ~ExactChild(req.name[1])
      /\ EndsWithData(req.name[1])
      /\ \E c \in Children(Unwrap(ReqNode)) :
            name_of(c) = StripData(req.name[1]) /\ ~ShadowLaw(c) )
    => reply = ReplyError(ENOENT)

\* C3 - lookup replies with the shadow presentation of a child c only when the
\* name is exactly c's name followed by "_data" and c has a shadow; a name
\* that neither equals a child's name nor is a child's name followed by
\* "_data" gets the not-found reply.
C3_ShadowOnlyForExactSuffix ==
    LookupOfName =>
      /\ \A c \in Children(Unwrap(ReqNode)) :
            ( /\ reply.kind = "entry"
              /\ <<reply.attr.ino, c, "shadow">> \in InodeBindings )
            => /\ req.name[1] = name_of(c) \o data_suffix
               /\ ShadowLaw(c)
      /\ ( /\ ~ExactChild(req.name[1])
           /\ ~(EndsWithData(req.name[1]) /\ ExactChild(StripData(req.name[1]))) )
         => reply = ReplyError(ENOENT)

\* C4 - Read clamping: on a registered inode whose node materializes to content
\* of length L, read(inode, offset, size) returns exactly
\* content[min(offset, L) .. min(offset + size, L)]; never an error or abort.
C4_ReadClamping ==
    (req.op = "read" /\ IsSome(ReqNode)) =>
        LET content == with_node_data(Unwrap(ReqNode))
            L       == Len(content)
        IN /\ reply.kind = "data"
           /\ reply.data = SubSeq(content, Min(req.offset, L) + 1,
                                  Min(req.offset + req.size, L))

\* a read that starts behind the end of non-empty content and is answered
\* with no bytes
C4_Witness ==
    /\ req.op = "read"
    /\ IsSome(ReqNode)
    /\ Len(with_node_data(Unwrap(ReqNode))) > 0
    /\ req.offset > Len(with_node_data(Unwrap(ReqNode)))
    /\ req.size > 0
    /\ reply = ReplyData(<<>>)

\* C5 - in one readdir(inode, 0) listing the cookies are strictly increasing
\* in emission order, so no two entries carry the same cookie.
C5_CookiesStrictlyIncreasing ==
    (req.op = "readdir" /\ reply.kind = "dir") =>
        \A i \in 1..Len(reply.dir), j \in 1..Len(reply.dir) :
            i < j => reply.dir[i].offset < reply.dir[j].offset

\* the listing C6 describes for a sequence of children, from the registry:
\* <child name> with the primary inode, then <child name>_data with the
\* shadow inode when the child owns one
RECURSIVE ExpectedListing(_)
ExpectedListing(children) ==
    IF children = <<>> THEN <<>>
    ELSE LET c   == Head(children)
             ino == Unwrap(Entries_inodes(entries, c))
         IN <<[name |-> name_of(c), ino |-> ino.main, shadow |-> FALSE]>>
            \o (IF IsSome(ino.opt_data)
                THEN <<[name |-> name_of(c) \o data_suffix,
                        ino |-> Unwrap(ino.opt_data), shadow |-> TRUE]>>
                ELSE <<>>)
            \o ExpectedListing(Tail(children))

\* C6 - readdir(inode, 0) on a registered inode emits, for each child in the
\* archive's order, <child name> with the primary inode, immediately followed
\* by <child name>_data with the shadow inode and kind regular file iff the
\* child owns a shadow inode; nothing else; no children, empty listing.
C6_ReaddirListing ==
    (req.op = "readdir" /\ req.offset = 0 /\ IsSome(ReqNode)) =>
        /\ reply.kind = "dir"
        /\ \A c \in Children(Unwrap(ReqNode)) : IsSome(Entries_inodes(entries, c))
        /\ LET expected == ExpectedListing(iter(Unwrap(ReqNode)))
           IN /\ Len(reply.dir) = Len(expected)
              /\ \A i \in 1..Len(expected) :
                    /\ reply.dir[i].name = expected[i].name
                    /\ reply.dir[i].ino = expected[i].ino
                    /\ expected[i].shadow => reply.dir[i].kind = "RegularFile"

\* a listing of two children, the first of which owns a shadow inode
C6_Witness ==
    /\ req.op = "readdir"
    /\ req.offset = 0
    /\ reply.kind = "dir"
    /\ Len(reply.dir) = 3
    /\ reply.dir[2].name = reply.dir[1].name \o data_suffix
    /\ reply.dir[2].ino /= reply.dir[1].ino

\* C7 - Shadow existence law: every Entry of the registry, the root entry
\* included, has a shadow inode iff its node has at least one child and its
\* kind is not Empty.
C7_ShadowExistenceLaw ==
    \A i \in 1..Len(entries) :
        IsSome(entries[i].inodes.opt_data) <=> ShadowLaw(entries[i].nxnode)

\* C8 - Attribute stability: once an attribute record exists for an inode, no
\* later operation changes or removes it, and every getattr and lookup reply
\* for that inode carries the identical record.
C8_AttributeStability ==
    [][ /\ \A i \in DOMAIN inode_attrs :
              i \in DOMAIN inode_attrs' /\ inode_attrs'[i] = inode_attrs[i]
        /\ ( /\ reply'.kind \in {"attr", "entry"}
             /\ reply'.attr.ino \in DOMAIN inode_attrs )
           => reply'.attr = inode_attrs[reply'.attr.ino] ]_vars

\* a lookup answered with the root's cached record although the record
\* derived from the root node now would differ in size
C8_Witness ==
    /\ req.op = "lookup"
    /\ reply.kind = "entry"
    /\ reply.attr.ino = FUSE_ROOT_ID
    /\ reply.attr.size /= Len(with_node_data(root))

\* C9 - Size agreement: for every inode with an attribute record (root,
\* primary or shadow) the record's size is the length of the node's
\* materialized content, the number of bytes a large enough read returns.
C9_SizeIsContentLength ==
    \A i \in DOMAIN inode_attrs :
        IsSome(Entries_nxnode(entries, i)) =>
            inode_attrs[i].size =
                Len(with_node_data(Unwrap(Entries_nxnode(entries, i))))

\* the records of every entry, the root's included: the primary record is a
\* directory iff the node has a child, the shadow record is a regular file of
\* the primary record's size
KindOfPresentation ==
    \A i \in 1..Len(entries) :
        LET e == entries[i]
        IN e.inodes.main \in DOMAIN inode_attrs =>
            /\ inode_attrs[e.inodes.main].kind =
                  (IF Len(File[e.nxnode].children) > 0
                   THEN "Directory" ELSE "RegularFile")
            /\ IsSome(e.inodes.opt_data) =>
                  /\ Unwrap(e.inodes.opt_data) \in DOMAIN inode_attrs
                  /\ inode_attrs[Unwrap(e.inodes.opt_data)].kind = "RegularFile"
                  /\ inode_attrs[Unwrap(e.inodes.opt_data)].size =
                        inode_attrs[e.inodes.main].size

\* lookup(p, c) for a child c with a shadow: the directory record of c
LookupOfShadowedChild(c) ==
    req.name[1] = name_of(c) =>
        /\ reply.kind = "entry"
        /\ <<reply.attr.ino, c, "primary">> \in InodeBindings
        /\ reply.attr.kind = "Directory"

\* lookup(p, c_data) for a child c with a shadow: the file record of c, under
\* another inode number than c's primary
LookupOfShadow(c) ==
    req.name[1] = name_of(c) \o data_suffix =>
        /\ reply.kind = "entry"
        /\ <<reply.attr.ino, c, "shadow">> \in InodeBindings
        /\ <<reply.attr.ino, c, "primary">> \notin InodeBindings
        /\ reply.attr.kind = "RegularFile"

\* C10 - Kind of presentation: the record of a primary inode, the root's
\* included, is a directory iff its node has at least one child, the record of
\* a shadow inode is a regular file of the primary record's size, and for
\* every child c with a shadow lookup(p, c) and lookup(p, c_data) resolve to
\* the same node c with different inode numbers and kinds (directory vs.
\* file).
C10_KindOfPresentation ==
    /\ KindOfPresentation
    /\ LookupOfName =>
          \A c \in Children(Unwrap(ReqNode)) :
              ShadowLaw(c) => LookupOfShadowedChild(c) /\ LookupOfShadow(c)

\* the numbers the registry has assigned: the root's and every primary and
\* shadow number
AssignedInodes == {b[1] : b \in InodeBindings}

\* C11 - Exact-match priority: when the parent has a child literally named
\* name, lookup(parent, name) resolves to that child and replies with its
\* primary attribute record, also when name ends in "_data" and a sibling of
\* the stripped name has a shadow.
C11_ExactMatchPriority ==
    LookupOfName =>
        \A c \in Children(Unwrap(ReqNode)) :
            name_of(c) = req.name[1] =>
                /\ reply.kind = "entry"
                /\ <<reply.attr.ino, c, "primary">> \in InodeBindings
                /\ reply.attr = inode_attrs[reply.attr.ino]

\* a lookup of a child literally named x_data next to a sibling x with a
\* shadow, answered with the primary record of the child x_data
C11_Witness ==
    /\ LookupOfName
    /\ EndsWithData(req.name[1])
    /\ \E c \in Children(Unwrap(ReqNode)), x \in Children(Unwrap(ReqNode)) :
          /\ name_of(c) = req.name[1]
          /\ name_of(x) = StripData(req.name[1])
          /\ ShadowLaw(x)
          /\ reply.kind = "entry"
          /\ <<reply.attr.ino, c, "primary">> \in InodeBindings

\* C12 - Unregistered inode is fatal: getattr, read and readdir (every offset
\* and size) and lookup (as parent) on an inode number the engine never
\* assigned end in a fatal abort, never in a success reply.
C12_UnregisteredIsFatal ==
    ( /\ req.op \in {"getattr", "read", "readdir", "lookup"}
      /\ req.ino \notin AssignedInodes )
    => reply = Panic

RegisteredNodes(vec) == {vec[i].nxnode : i \in 1..Len(vec)}

\* the inode pair of the first entry of a registered node
PairIn(vec, n) == vec[SetMin({i \in 1..Len(vec) : vec[i].nxnode = n})].inodes

\* C13 - Idempotence of inode assignment: the pair of a node stays the one of
\* its first registration; the entry table and the counter change only when a
\* node is registered for the first time, so a repeated lookup or readdir
\* yields the same numbers and allocates nothing.
C13_InodesIdempotent ==
    [][ /\ \A i \in 1..Len(entries) :
              i <= Len(entries') /\ entries'[i] = entries[i]
        /\ \A n \in RegisteredNodes(entries) :
              PairIn(entries', n) = PairIn(entries, n)
        /\ RegisteredNodes(entries') = RegisteredNodes(entries) =>
              entries' = entries /\ inode_counter' = inode_counter
        /\ Len(entries') - Len(entries) =
              Cardinality(RegisteredNodes(entries') \ RegisteredNodes(entries))
        /\ ( /\ req'.op = "lookup"
             /\ reply'.kind = "entry" )
           => \E n \in RegisteredNodes(entries') :
                 \/ reply'.attr.ino = PairIn(entries', n).main
                 \/ Some(reply'.attr.ino) = PairIn(entries', n).opt_data ]_vars

\* a lookup answered with a number of an entry that is not the latest one: the
\* node had its pair before this call
C13_Witness ==
    /\ req.op = "lookup"
    /\ reply.kind = "entry"
    /\ reply.attr.ino /= FUSE_ROOT_ID
    /\ \E i \in 1..(Len(entries) - 1) :
          \/ entries[i].inodes.main = reply.attr.ino
          \/ entries[i].inodes.opt_data = Some(reply.attr.ino)

\* every assigned number has an attribute record
RegisteredAttributed == AssignedInodes \subseteq DOMAIN inode_attrs

\* every inode of the last reply is answered by getattr with its record
DeliveredAttributed ==
    /\ reply.kind = "entry" => getattr(State, reply.attr.ino).reply.kind = "attr"
    /\ reply.kind = "dir" =>
          \A i \in 1..Len(reply.dir) :
              getattr(State, reply.dir[i].ino).reply.kind = "attr"

\* C14 - Registered implies attributed at operation boundaries: from
\* construction on every number of the registry, the root's included, has an
\* attribute record, every inode delivered by lookup or readdir can be passed
\* to getattr, and no operation unregisters a number or drops its record.
C14_RegisteredImpliesAttributed ==
    /\ [](RegisteredAttributed /\ DeliveredAttributed)
    /\ [][ /\ AssignedInodes \subseteq AssignedInodes'
           /\ DOMAIN inode_attrs \subseteq DOMAIN inode_attrs' ]_vars

\* a listing with a shadow entry, every inode of which has its record
C14_Witness ==
    /\ req.op = "readdir"
    /\ reply.kind = "dir"
    /\ \E i \in 1..Len(reply.dir) :
          <<reply.dir[i].ino, Unwrap(Entries_nxnode(entries, reply.dir[i].ino)),
            "shadow">> \in InodeBindings
    /\ \A i \in 1..Len(reply.dir) : reply.dir[i].ino \in DOMAIN inode_attrs

\* the numbers of the registry in the order of the entries, main before data
RECURSIVE AllocationOrder(_)
AllocationOrder(vec) ==
    IF vec = <<>> THEN <<>>
    ELSE <<Head(vec).inodes.main>> \o Head(vec).inodes.opt_data
         \o AllocationOrder(Tail(vec))

\* C15 - Monotone allocation: after the root's number the numbers are handed
\* out as root + 1, root + 2, ... in the order of registration, a shadow being
\* its primary + 1; the counter is the next number, above every number of the
\* registry, and no number is handed out twice.
C15_MonotoneAllocation ==
    LET order == AllocationOrder(entries)
    IN /\ \A k \in 1..Len(order) : order[k] = FUSE_ROOT_ID + k - 1
       /\ inode_counter = FUSE_ROOT_ID + Len(order)
       /\ \A i \in 1..Len(entries) :
             IsSome(entries[i].inodes.opt_data) =>
                 Unwrap(entries[i].inodes.opt_data) = entries[i].inodes.main + 1

\* a node without shadow was registered after a node with one
C15_Witness ==
    \E i \in 1..Len(entries), j \in 1..Len(entries) :
        /\ 1 < i /\ i < j
        /\ IsSome(entries[i].inodes.opt_data)
        /\ entries[j].inodes.main = Unwrap(entries[i].inodes.opt_data) + 1

\* C16 - Registry round trip (I1): each node has at most one Entry; for every
\* registered node n, resolve(primary of n) = n and resolve(shadow of n) = n,
\* and inodes_for(n) is that entry's pair; resolve is none for every number
\* that is not assigned.
C16_RegistryRoundTrip ==
    /\ \A i \in 1..Len(entries), j \in 1..Len(entries) :
          entries[i].nxnode = entries[j].nxnode => i = j
    /\ \A i \in 1..Len(entries) :
          /\ Entries_inodes(entries, entries[i].nxnode) = Some(entries[i].inodes)
          /\ Entries_nxnode(entries, entries[i].inodes.main) =
                Some(entries[i].nxnode)
          /\ IsSome(entries[i].inodes.opt_data) =>
                Entries_nxnode(entries, Unwrap(entries[i].inodes.opt_data)) =
                    Some(entries[i].nxnode)
    /\ \A k \in 0..(inode_counter + 1) :
          k \notin AssignedInodes => Entries_nxnode(entries, k) = None
    /\ (req.op \in {"lookup", "readdir"} /\ reply.kind = "entry") =>
          IsSome(Entries_nxnode(entries, reply.attr.ino))

\* a lookup answered with a shadow number that resolves to its node
C16_Witness ==
    /\ req.op = "lookup"
    /\ reply.kind = "entry"
    /\ \E i \in 1..Len(entries) :
          /\ entries[i].inodes.opt_data = Some(reply.attr.ino)
          /\ Entries_nxnode(entries, reply.attr.ino) = Some(entries[i].nxnode)
          /\ Len(entries) >= 3

BothServed ==
    /\ Len(inflight) = 2
    /\ \A k \in 1..Len(inflight) : inflight[k].served

\* the node both outstanding calls are about
TargetNode ==
    CHOOSE c \in Children(Unwrap(Entries_nxnode(entries, inflight[1].call.ino))) :
        name_of(c) = inflight[1].call.name[1]

\* C17 - Concurrent dispatch: two lookups, or a lookup and a readdir, issued
\* together for the same unseen node are served as whole handlers; in either
\* order exactly one Entry and one inode pair is created for the node, no
\* number is lost, and both replies carry the same inode number.
C17_ConcurrentDispatch ==
    BothServed =>
        LET l == inflight[1]
            o == inflight[2]
            n == TargetNode
        IN /\ Cardinality({i \in 1..Len(entries) : entries[i].nxnode = n}) = 1
           /\ inode_counter = FUSE_ROOT_ID + Len(AllocationOrder(entries))
           /\ l.reply.kind = "entry"
           /\ l.reply.attr.ino = PairIn(entries, n).main
           /\ o.call.op = "lookup" =>
                 /\ o.reply = l.reply
                 /\ Len(entries) = l.base + 1
           /\ o.call.op = "readdir" =>
                 /\ o.reply.kind = "dir"
                 /\ \E i \in 1..Len(o.reply.dir) :
                       /\ o.reply.dir[i].name = l.call.name[1]
                       /\ o.reply.dir[i].ino = l.reply.attr.ino
                 /\ \A i \in 1..Len(o.reply.dir) :
                       o.reply.dir[i].ino = l.reply.attr.ino =>
                           o.reply.dir[i].name = l.call.name[1]

\* the readdir was served first and registered the node; the lookup issued
\* with it then replied with the number the readdir listed
C17_Witness ==
    /\ BothServed
    /\ inflight[2].call.op = "readdir"
    /\ req.op = "lookup"
    /\ reply.kind = "entry"
    /\ IsSome(PairIn(entries, TargetNode).opt_data)
    /\ \E i \in 1..Len(inflight[2].reply.dir) :
          inflight[2].reply.dir[i].ino = reply.attr.ino

\* C18 - readdir/lookup agreement: for every entry (name, inode, kind) of the
\* listing of readdir(d, 0), lookup(d, name) replies with an attribute record
\* of that inode number and kind, and the names of one listing are pairwise
\* distinct.
C18_ReaddirLookupAgreement ==
    ( /\ req.op = "readdir"
      /\ req.offset = 0
      /\ reply.kind = "dir" )
    => /\ \A i \in 1..Len(reply.dir) :
             LET e == reply.dir[i]
                 r == lookup(State, req.ino, <<e.name>>).reply
             IN /\ r.kind = "entry"
                /\ r.attr.ino = e.ino
                /\ r.attr.kind = e.kind
       /\ \A i \in 1..Len(reply.dir), j \in 1..Len(reply.dir) :
             reply.dir[i].name = reply.dir[j].name => i = j

RegistryUnchanged ==
    /\ entries' = entries
    /\ inode_counter' = inode_counter
    /\ inode_attrs' = inode_attrs

\* the step served a not-found lookup, a getattr, a read or a readdir with a
\* non-zero offset
NonRegisteringStep ==
    \/ (req'.op = "lookup" /\ reply'.kind = "error")
    \/ req'.op \in {"getattr", "read"}
    \/ (req'.op = "readdir" /\ req'.offset /= 0)

\* C19 - Frame of non-registering operations: a lookup that replies not-found,
\* every getattr, every read and every readdir with a non-zero offset leave
\* the entry table, the counter and the attribute cache unchanged; only a
\* successful lookup and a readdir with offset 0 add entries or records.
C19_FrameOfNonRegistering ==
    [][ /\ NonRegisteringStep => RegistryUnchanged
        /\ ~RegistryUnchanged =>
              \/ (req'.op = "lookup" /\ reply'.kind = "entry")
              \/ (req'.op = "readdir" /\ req'.offset = 0) ]_vars

====
